---- MODULE Spec2Model ----
(***************************************************************************)
(* Model of the plan-takeoff pipeline of src/src/pipeline.py: Calibration, *)
(* the stages of run_pipeline, compute_geometry, sanity_score and          *)
(* filter_candidates.                                                      *)
(*                                                                         *)
(* Python floats are modelled as exact rationals <<n, d>> (d > 0, lowest   *)
(* terms) and float("inf") as the value Inf; floating-point rounding is    *)
(* not modelled.  A raised exception is the record returned by Raise.      *)
(***************************************************************************)
EXTENDS Integers, Sequences, FiniteSets, TLC

\* Longest sequence of polygons (contours) given to one call.
MaxPolys == 2

(***************************************************************************)
(* Numbers                                                                 *)
(***************************************************************************)
Abs(x) == IF x < 0 THEN -x ELSE x

RECURSIVE GCD(_, _)
GCD(a, b) == IF b = 0 THEN a ELSE GCD(b, a % b)

\* The rational n/d in lowest terms with a positive denominator (d # 0).
Q(n, d) ==
    LET g == GCD(Abs(n), Abs(d))
        s == IF d < 0 THEN -1 ELSE 1
    IN  <<s * (n \div g), s * (d \div g)>>

QInt(n) == <<n, 1>>
QMul(a, b) == Q(a[1] * b[1], a[2] * b[2])
QDiv(a, b) == Q(a[1] * b[2], a[2] * b[1])
QLess(a, b) == a[1] * b[2] < b[1] * a[2]
QLeq(a, b) == a[1] * b[2] <= b[1] * a[2]

\* float("inf"); it is larger than every finite value.
Inf == <<1, 0>>
FloatGreater(a, b) ==
    IF a = Inf THEN b # Inf
    ELSE IF b = Inf THEN FALSE
    ELSE QLess(b, a)

\* Exceptions and normal returns of a call.
Raise(msg) == [exc |-> msg]
Return(v) == [exc |-> "none", val |-> v]
Raised(r) == r.exc # "none"

(***************************************************************************)
(* shapely.geometry.Polygon: a polygon is the sequence of the points it    *)
(* was built from, each point <<x, y>> with integer coordinates.           *)
(***************************************************************************)
is_empty(polygon) == Len(polygon) = 0

\* polygon.exterior.coords: the ring is stored closed, the first point is
\* repeated at the end unless the input already repeats it.
exterior_coords(polygon) ==
    IF is_empty(polygon) THEN <<>>
    ELSE IF polygon[1] = polygon[Len(polygon)] THEN polygon
    ELSE Append(polygon, polygon[1])

\* Euclidean length of the edge p -> q; the polygons of the model have
\* integer edge lengths only.
EdgeLength(p, q) ==
    LET dx == Abs(q[1] - p[1])
        dy == Abs(q[2] - p[2])
    IN  IF dy = 0 THEN dx
        ELSE IF dx = 0 THEN dy
        ELSE CHOOSE r \in 0..(dx + dy) : r * r = dx * dx + dy * dy

RECURSIVE RingLength(_, _)
RingLength(ring, i) ==
    IF i >= Len(ring) THEN 0
    ELSE EdgeLength(ring[i], ring[i + 1]) + RingLength(ring, i + 1)

\* Twice the signed shoelace area of the closed ring, from edge i on.
RECURSIVE Shoelace2(_, _)
Shoelace2(ring, i) ==
    IF i >= Len(ring) THEN 0
    ELSE ring[i][1] * ring[i + 1][2] - ring[i + 1][1] * ring[i][2]
         + Shoelace2(ring, i + 1)

\* polygon.length: perimeter of the closed exterior ring, in pixels.
length(polygon) == QInt(RingLength(exterior_coords(polygon), 1))

\* polygon.area: unsigned area, in square pixels.
area(polygon) == Q(Abs(Shoelace2(exterior_coords(polygon), 1)), 2)

(***************************************************************************)
(* Calibration and PipelineConfig                                          *)
(***************************************************************************)
\* Calibration(pixel_distance, real_distance_feet): the generated
\* constructor of the frozen dataclass stores the two fields.
Calibration(pixel_distance, real_distance_feet) ==
    [pixel_distance |-> pixel_distance,
     real_distance_feet |-> real_distance_feet]

\* Calibration.feet_per_pixel (a property, evaluated on every read).
feet_per_pixel(self) ==
    IF self.pixel_distance <= 0
    THEN Raise("pixel_distance must be > 0")
    ELSE IF self.real_distance_feet <= 0
    THEN Raise("real_distance_feet must be > 0")
    ELSE Return(Q(self.real_distance_feet, self.pixel_distance))

\* The errors the specification calls InvalidCalibration, InvalidConfig
\* and MalformedContour are the ValueErrors with these messages.
InvalidCalibration ==
    {"pixel_distance must be > 0", "real_distance_feet must be > 0"}
InvalidConfig == {"adaptive_block_size must be odd"}
MalformedContour == {"Unexpected contour shape"}
\* Errors raised inside the libraries the pipeline calls.
Cv2Error == "cv2.error"
ShapelyError == "A linearring requires at least 4 coordinates"

\* Optional[T]: None is the empty sequence, a value v is Some(v).
None == <<>>
Some(v) == <<v>>
The(o) == o[1]

\* PipelineConfig() with its default field values.
PipelineConfig ==
    [dpi |-> 600,
     adaptive_block_size |-> 35,
     adaptive_c |-> 10,
     line_weight_threshold_px |-> 5,
     close_kernel_px |-> Some(3),
     min_area_sqft |-> QInt(1),
     max_vertex_count |-> 1000,
     sanity_ratio_threshold |-> Q(8, 10)]

(***************************************************************************)
(* Geometry and filtering                                                  *)
(***************************************************************************)
\* Scales the area by feet_per_pixel instead of its square.
compute_geometry_linear(polygon, calibration) ==
    LET fpp == feet_per_pixel(calibration)
    IN  IF Raised(fpp) THEN fpp
        ELSE Return(<<QMul(area(polygon), fpp.val),
                      QMul(length(polygon), fpp.val)>>)
\* compute_geometry: <<area_sqft, perimeter_lf>>, or the error of
\* feet_per_pixel, which is read before the polygon is measured.
compute_geometry(polygon, calibration) ==
    LET fpp == feet_per_pixel(calibration)
    IN  IF Raised(fpp) THEN fpp
        ELSE Return(<<QMul(area(polygon), QMul(fpp.val, fpp.val)),
                      QMul(length(polygon), fpp.val)>>)

\* Divides without the zero-area guard: ZeroDivisionError.
sanity_score_unguarded(polygon) ==
    IF area(polygon) = QInt(0) THEN Raise("ZeroDivisionError")
    ELSE Return(QDiv(length(polygon), area(polygon)))
\* sanity_score: perimeter/area in pixel units, +inf for a zero area.
sanity_score(polygon) ==
    IF area(polygon) = QInt(0) THEN Return(Inf)
    ELSE Return(QDiv(length(polygon), area(polygon)))

CandidateMetrics(contour_index, area_sqft, perimeter_lf, vertex_count, score, flagged) ==
    [contour_index |-> contour_index,
     area_sqft |-> area_sqft,
     perimeter_lf |-> perimeter_lf,
     vertex_count |-> vertex_count,
     sanity_score |-> score,
     flagged |-> flagged]

PipelineResult(polygons, metrics) ==
    [polygons |-> polygons, metrics |-> metrics]

\* The metrics of the polygon at position idx as the loop computes
\* them; contour_index counts from idx + 1.
measure_from_one(polygon, idx, calibration, config) ==
    LET geom == compute_geometry(polygon, calibration)
        vertices == Len(exterior_coords(polygon))
        score == sanity_score(polygon)
    IN  IF Raised(geom) THEN geom
        ELSE IF Raised(score) THEN score
        ELSE Return(CandidateMetrics(idx + 1, geom.val[1], geom.val[2],
                      vertices, score.val,
                      FloatGreater(score.val,
                                   config.sanity_ratio_threshold)))
\* Lines 164-167 and 173-180: geometry, vertex count, score and flag of
\* the polygon at position idx, as the record appended on acceptance.
measure(polygon, idx, calibration, config) ==
    LET geom == compute_geometry(polygon, calibration)
        vertices == Len(exterior_coords(polygon))
        score == sanity_score(polygon)
    IN  IF Raised(geom) THEN geom
        ELSE IF Raised(score) THEN score
        ELSE Return(CandidateMetrics(idx, geom.val[1], geom.val[2],
                      vertices, score.val,
                      FloatGreater(score.val,
                                   config.sanity_ratio_threshold)))

\* Leaves out the vertex-count filter.
excluded_by_area_only(m, config) ==
    QLess(m.area_sqft, config.min_area_sqft)
\* Treats the flag as a third filter.
excluded_or_flagged(m, config) ==
    \/ QLess(m.area_sqft, config.min_area_sqft)
    \/ m.vertex_count > config.max_vertex_count
    \/ m.flagged
\* Lines 168-171: the two `continue` tests.
excluded(m, config) ==
    \/ QLess(m.area_sqft, config.min_area_sqft)
    \/ m.vertex_count > config.max_vertex_count

\* Lines 162-182, one iteration of the loop: an error, Return(<<>>) when
\* the polygon is skipped, Return(<<m>>) when it is accepted.
filter_step(polygon, idx, calibration, config) ==
    IF is_empty(polygon) THEN Return(<<>>)
    ELSE
      LET m == measure(polygon, idx, calibration, config)
      IN  IF Raised(m) THEN m
          ELSE IF excluded(m.val, config) THEN Return(<<>>)
          ELSE Return(<<m.val>>)

\* The loop of filter_candidates from position idx (0-based, as
\* enumerate counts) with the lists built so far.
RECURSIVE filter_loop(_, _, _, _, _, _)
filter_loop(polygons, calibration, config, idx, accepted, metrics) ==
    IF idx >= Len(polygons) THEN Return(PipelineResult(accepted, metrics))
    ELSE
      LET polygon == polygons[idx + 1]
          step == filter_step(polygon, idx, calibration, config)
      IN  IF Raised(step) THEN step
          ELSE IF step.val = <<>>
          THEN filter_loop(polygons, calibration, config, idx + 1,
                           accepted, metrics)
          ELSE filter_loop(polygons, calibration, config, idx + 1,
                           Append(accepted, polygon),
                           metrics \o step.val)

filter_candidates(polygons, calibration, config) ==
    filter_loop(polygons, calibration, config, 0, <<>>, <<>>)

(***************************************************************************)
(* The stages of run_pipeline.  Rasters and masks are not modelled pixel   *)
(* by pixel: a stage returns the sequence of OpenCV operations it has      *)
(* completed, and the external boundaries found in the mask are an input.  *)
(***************************************************************************)
StageReturn(done) == [exc |-> "none", val |-> done]
StageRaise(msg, done) == [exc |-> msg, val |-> done]

\* Thresholds whatever the block size.
adaptive_binarize_unchecked(block_size) ==
    StageReturn(<<"adaptiveThreshold">>)
\* adaptive_binarize; cv2.adaptiveThreshold itself rejects a block size
\* that is not larger than 1.
adaptive_binarize(block_size) ==
    IF block_size % 2 = 0
    THEN StageRaise("adaptive_block_size must be odd", <<>>)
    ELSE IF block_size <= 1 THEN StageRaise(Cv2Error, <<>>)
    ELSE StageReturn(<<"adaptiveThreshold">>)

\* cv2.getStructuringElement fails for a kernel size below 1.
BadKernel(size) == size <= 0

\* thickness_gate; `if close_kernel_px:` is false for None and for 0.
thickness_gate(line_weight_threshold_px, close_kernel_px) ==
    IF BadKernel(line_weight_threshold_px) THEN StageRaise(Cv2Error, <<>>)
    ELSE IF close_kernel_px # None /\ The(close_kernel_px) # 0
    THEN IF BadKernel(The(close_kernel_px))
         THEN StageRaise(Cv2Error, <<"open">>)
         ELSE StageReturn(<<"open", "close">>)
    ELSE StageReturn(<<"open">>)

\* A contour as cv2.findContours returns it: an array of shape (N, 1, 2).
Contour(points) == [ndim |-> 3, shape1 |-> 1, points |-> points]

RECURSIVE find_closed_contours(_)
find_closed_contours(mask) ==
    IF mask = <<>> THEN <<>>
    ELSE <<Contour(Head(mask))>> \o find_closed_contours(Tail(mask))

\* contour_to_polygon; shapely's Polygon refuses a ring of one or two
\* points and builds the empty polygon from no points.
contour_to_polygon(contour) ==
    IF contour.ndim # 3 \/ contour.shape1 # 1
    THEN Raise("Unexpected contour shape")
    ELSE IF Len(contour.points) \in 1..2 THEN Raise(ShapelyError)
    ELSE Return(contour.points)

\* Leaves out the contours that cannot be converted and goes on.
RECURSIVE build_polygons_skipping(_, _)
build_polygons_skipping(cs, built) ==
    IF cs = <<>> THEN Return(built)
    ELSE LET p == contour_to_polygon(Head(cs))
         IN  IF Raised(p) THEN build_polygons_skipping(Tail(cs), built)
             ELSE build_polygons_skipping(Tail(cs), Append(built, p.val))
\* Line 227, the list comprehension: the first failing contour raises.
RECURSIVE build_polygons(_, _)
build_polygons(cs, built) ==
    IF cs = <<>> THEN Return(built)
    ELSE LET p == contour_to_polygon(Head(cs))
         IN  IF Raised(p) THEN p
             ELSE build_polygons(Tail(cs), Append(built, p.val))

(***************************************************************************)
(* Inputs                                                                  *)
(***************************************************************************)
Empty == <<>>
\* The rectangle of the scenario: 100 pixels wide, 50 high.
Rect == << <<0, 0>>, <<100, 0>>, <<100, 50>>, <<0, 50>> >>
\* Right triangle with sides 3, 4, 5.
Tri == << <<0, 0>>, <<3, 0>>, <<0, 4>> >>
\* Three collinear points: a non-empty polygon of zero area.
Flat == << <<0, 0>>, <<2, 0>>, <<4, 0>> >>
\* L-shaped hexagon, traversed clockwise.
Ell == << <<0, 0>>, <<0, 4>>, <<2, 4>>, <<2, 2>>, <<4, 2>>, <<4, 0>> >>
\* A boundary of two pixels.
Sliver == << <<0, 0>>, <<1, 0>> >>

Shapes == {Empty, Rect, Tri, Flat, Ell, Sliver}

RECURSIVE SeqsUpTo(_, _)
SeqsUpTo(S, n) ==
    IF n = 0 THEN {<<>>}
    ELSE LET shorter == SeqsUpTo(S, n - 1)
         IN  shorter \cup {Append(q, x) : q \in shorter, x \in S}

Inputs == SeqsUpTo(Shapes, MaxPolys)

\* Shapes a Polygon can be constructed from.
IsPolygon(shape) == Len(shape) = 0 \/ Len(shape) >= 3
AllPolygons(shapes) == \A i \in 1..Len(shapes) : IsPolygon(shapes[i])
\* Shapes a traced boundary can have.
AllBoundaries(shapes) == \A i \in 1..Len(shapes) : Len(shapes[i]) >= 1

PixelDistances == {0, 50, 100}
RealDistances == {-5, 0, 10}

BlockSizes == {35, 34, 0}
LineWeights == {5, 0}
CloseKernels == {Some(3), None, Some(0), Some(-1)}
MinAreas == {QInt(0), QInt(1), QInt(60)}
MaxVertexCounts == {4, 5, 1000}
Thresholds == {Q(1, 20), Q(8, 10)}

Configs ==
    {[PipelineConfig EXCEPT !.adaptive_block_size = b,
                            !.line_weight_threshold_px = w,
                            !.close_kernel_px = k,
                            !.min_area_sqft = a,
                            !.max_vertex_count = v,
                            !.sanity_ratio_threshold = t] :
        b \in BlockSizes, w \in LineWeights, k \in CloseKernels,
        a \in MinAreas, v \in MaxVertexCounts, t \in Thresholds}

(***************************************************************************)
(* State                                                                   *)
(***************************************************************************)
VARIABLES
    calibration,  \* the Calibration the caller holds, None before it is built
    config,       \* the PipelineConfig of the call
    input,        \* the polygons given to the call / boundaries in the mask
    op,           \* the function the caller has called
    arg,          \* position in input of the polygon given to a direct call
    pc,           \* position inside the call
    calls,        \* operations run_pipeline has completed, in order
    contours,     \* local of run_pipeline
    polygons,     \* local of run_pipeline
    out           \* what the call returned or raised

pipeline_vars == <<calibration, config, input, op, arg, pc, calls, contours,
                   polygons, out>>

VARIABLES
    metrics,      \* export_to_csv: the records given to it
    file          \* export_to_csv: the rows of the file at output_path

export_vars == <<metrics, file>>

VARIABLES
    regions,      \* AcceptedRegionsModel._regions
    next_id,      \* AcceptedRegionsModel._next_id
    returned,     \* the region_ids add_region has returned, in order
    last_call     \* the last call on the model: <<method, region_id>>

model_vars == <<regions, next_id, returned, last_call>>

VARIABLES
    renderer,            \* MainWindow.renderer: None or the page count
    current_page,        \* MainWindow.current_page
    gray_image,          \* MainWindow.gray_image: None or the page rendered
    window_calibration,  \* MainWindow.calibration: page -> None or factor
    calibration_points,  \* MainWindow.calibration_points
    calibrating,         \* MainWindow.calibrating
    candidates,          \* MainWindow.candidates: the candidate items
    overlays,            \* region_ids of the accepted overlays in the scene
    accepted_on,         \* region_id -> page index shown when it was accepted
    event                \* the handler that ran last, with its outcome

window_vars == <<renderer, current_page, gray_image, window_calibration,
                 calibration_points, calibrating, candidates, overlays,
                 accepted_on, event>>

vars == <<pipeline_vars, export_vars, model_vars, window_vars>>

Running == [exc |-> "running"]

\* Most pages a document has.
PageCount == 2
\* Page indexes, as the page combo box numbers them.
Pages == 0..(PageCount - 1)

\* No export has been made: no records at hand, no file at output_path.
NoExport == metrics = <<>> /\ file = None

\* AcceptedRegionsModel.__init__ (src/model.py).
AcceptedRegionsModel ==
    /\ regions = <<>>
    /\ next_id = 1
    /\ returned = <<>>
    /\ last_call = <<"__init__", 0>>

\* MainWindow.__init__ without a pdf_path (src/ui.py): no document, no
\* calibration, no candidates.
MainWindow ==
    /\ renderer = None
    /\ current_page = 0
    /\ gray_image = None
    /\ window_calibration = [p \in Pages |-> None]
    /\ calibration_points = <<>>
    /\ calibrating = FALSE
    /\ candidates = <<>>
    /\ overlays = {}
    /\ accepted_on = <<>>
    /\ event = "init"

\* The parts of the state a pipeline call does not touch.
OutsidePipeline == UNCHANGED <<export_vars, model_vars, window_vars>>

Init ==
    /\ calibration = None
    /\ config \in Configs
    /\ input \in Inputs
    /\ op = "none"
    /\ arg = 0
    /\ pc = "idle"
    /\ calls = <<>>
    /\ contours = <<>>
    /\ polygons = <<>>
    /\ out = Running
    /\ NoExport
    /\ AcceptedRegionsModel
    /\ MainWindow

\* The caller constructs a Calibration; nothing is validated.
new_calibration ==
    /\ calibration = None
    /\ \E pd \in PixelDistances, rd \in RealDistances :
          calibration' = Some(Calibration(pd, rd))
    /\ UNCHANGED <<config, input, op, arg, pc, calls, contours, polygons,
                   out>>
    /\ OutsidePipeline

Callable == calibration # None /\ pc = "idle"

call_filter_candidates ==
    /\ Callable
    /\ AllPolygons(input)
    /\ op' = "filter_candidates"
    /\ out' = filter_candidates(input, The(calibration), config)
    /\ pc' = "done"
    /\ UNCHANGED <<calibration, config, input, arg, calls, contours,
                   polygons>>
    /\ OutsidePipeline

call_compute_geometry ==
    /\ Callable
    /\ \E i \in 1..Len(input) :
          /\ IsPolygon(input[i])
          /\ arg' = i
          /\ out' = compute_geometry(input[i], The(calibration))
    /\ op' = "compute_geometry"
    /\ pc' = "done"
    /\ UNCHANGED <<calibration, config, input, calls, contours, polygons>>
    /\ OutsidePipeline

call_sanity_score ==
    /\ Callable
    /\ \E i \in 1..Len(input) :
          /\ IsPolygon(input[i])
          /\ arg' = i
          /\ out' = sanity_score(input[i])
    /\ op' = "sanity_score"
    /\ pc' = "done"
    /\ UNCHANGED <<calibration, config, input, calls, contours, polygons>>
    /\ OutsidePipeline

\* run_pipeline, line 223: the page is rendered.
run_pipeline_render ==
    /\ Callable
    /\ AllBoundaries(input)
    /\ op' = "run_pipeline"
    /\ calls' = <<"render">>
    /\ pc' = "binarize"
    /\ UNCHANGED <<calibration, config, input, arg, contours, polygons, out>>
    /\ OutsidePipeline

\* A stage of run_pipeline: its operations are recorded, and an error
\* ends the call.
Stage(r, next) ==
    /\ calls' = calls \o r.val
    /\ IF Raised(r)
       THEN pc' = "done" /\ out' = Raise(r.exc)
       ELSE pc' = next /\ out' = out

\* Line 224.
run_pipeline_binarize ==
    /\ op = "run_pipeline" /\ pc = "binarize"
    /\ Stage(adaptive_binarize(config.adaptive_block_size), "gate")
    /\ UNCHANGED <<calibration, config, input, op, arg, contours, polygons>>
    /\ OutsidePipeline

\* Line 225.
run_pipeline_gate ==
    /\ op = "run_pipeline" /\ pc = "gate"
    /\ Stage(thickness_gate(config.line_weight_threshold_px,
                            config.close_kernel_px), "contours")
    /\ UNCHANGED <<calibration, config, input, op, arg, contours, polygons>>
    /\ OutsidePipeline

\* Line 226.
run_pipeline_contours ==
    /\ op = "run_pipeline" /\ pc = "contours"
    /\ contours' = find_closed_contours(input)
    /\ calls' = Append(calls, "findContours")
    /\ pc' = "polygons"
    /\ UNCHANGED <<calibration, config, input, op, arg, polygons, out>>
    /\ OutsidePipeline

\* Line 227.
run_pipeline_polygons ==
    /\ op = "run_pipeline" /\ pc = "polygons"
    /\ LET r == build_polygons(contours, <<>>)
       IN  IF Raised(r)
           THEN /\ pc' = "done" /\ out' = r
                /\ UNCHANGED <<polygons, calls>>
           ELSE /\ pc' = "filter" /\ polygons' = r.val
                /\ calls' = Append(calls, "polygons")
                /\ out' = out
    /\ UNCHANGED <<calibration, config, input, op, arg, contours>>
    /\ OutsidePipeline

\* Line 228.
run_pipeline_filter ==
    /\ op = "run_pipeline" /\ pc = "filter"
    /\ out' = filter_candidates(polygons, The(calibration), config)
    /\ calls' = Append(calls, "filter_candidates")
    /\ pc' = "done"
    /\ UNCHANGED <<calibration, config, input, op, arg, contours, polygons>>
    /\ OutsidePipeline

\* Arrays a caller can hand to contour_to_polygon: the points of an input
\* shape as an array of 2 or 3 dimensions, the middle one of size 1 or 2.
ContourArrays(points) ==
    {[ndim |-> n, shape1 |-> m, points |-> points] :
        n \in {2, 3}, m \in {1, 2}}

\* A direct call of contour_to_polygon; it takes neither calibration nor
\* configuration, and the model calls it before a calibration is built
\* and under the default configuration.
call_contour_to_polygon ==
    /\ pc = "idle" /\ calibration = None /\ config = PipelineConfig
    /\ \E i \in 1..Len(input) :
          \E c \in ContourArrays(input[i]) :
             /\ arg' = i
             /\ contours' = <<c>>
             /\ out' = contour_to_polygon(c)
    /\ op' = "contour_to_polygon"
    /\ pc' = "done"
    /\ UNCHANGED <<calibration, config, input, calls, polygons>>
    /\ OutsidePipeline

Next ==
    \/ new_calibration
    \/ call_contour_to_polygon
    \/ call_filter_candidates
    \/ call_compute_geometry
    \/ call_sanity_score
    \/ run_pipeline_render
    \/ run_pipeline_binarize
    \/ run_pipeline_gate
    \/ run_pipeline_contours
    \/ run_pipeline_polygons
    \/ run_pipeline_filter

Spec == Init /\ [][Next]_vars

(***************************************************************************)
(* export_to_csv.  The file is a sequence of rows, a row a sequence of     *)
(* cells, a data cell the sequence of the characters csv writes for the    *)
(* value: str(int), repr(float), str(bool).                                *)
(***************************************************************************)
DigitChar(d) == <<"0", "1", "2", "3", "4", "5", "6", "7", "8", "9">>[d + 1]

\* str(n) of an int.
RECURSIVE NatText(_)
NatText(n) ==
    IF n < 10 THEN <<DigitChar(n)>>
    ELSE NatText(n \div 10) \o <<DigitChar(n % 10)>>
IntText(n) == IF n < 0 THEN <<"-">> \o NatText(-n) ELSE NatText(n)

\* Digits repr shows after the point at most.
ReprDigits == 16

\* The decimal digits of rem/d after the point: all of them when the
\* expansion ends, the first `left` of them otherwise.
RECURSIVE FractionDigits(_, _, _)
FractionDigits(rem, d, left) ==
    IF rem = 0 \/ left = 0 THEN <<>>
    ELSE <<DigitChar((rem * 10) \div d)>>
         \o FractionDigits((rem * 10) % d, d, left - 1)

\* repr(x) of a non-negative float: "inf", or the shortest decimal text,
\* which always has a point and at least one digit after it ("50.0").
FloatText(x) ==
    IF x = Inf THEN <<"i", "n", "f">>
    ELSE LET whole == x[1] \div x[2]
             frac == FractionDigits(x[1] % x[2], x[2], ReprDigits)
         IN  NatText(whole) \o <<".">>
             \o (IF frac = <<>> THEN <<"0">> ELSE frac)

\* str(b) of a bool.
BoolText(b) ==
    IF b THEN <<"T", "r", "u", "e">> ELSE <<"F", "a", "l", "s", "e">>

\* Lines 193-200: the header row that writeheader writes.
fieldnames ==
    << <<"contour_index">>, <<"area_sqft">>, <<"perimeter_lf">>,
       <<"vertex_count">>, <<"sanity_score">>, <<"flagged">> >>

\* Lines 204-213: the row written for one record.
writerow(item) ==
    <<IntText(item.contour_index),
      FloatText(item.area_sqft),
      FloatText(item.perimeter_lf),
      IntText(item.vertex_count),
      FloatText(item.sanity_score),
      BoolText(item.flagged)>>

\* Opens the file for appending: what was there stays in front.
export_to_csv_appending(items, old) ==
    (IF old = None THEN <<>> ELSE The(old))
    \o <<fieldnames>> \o [k \in 1..Len(items) |-> writerow(items[k])]
\* export_to_csv: the rows of the file after the call; open(..., "w")
\* truncates whatever the file held (old).
export_to_csv(items, old) ==
    <<fieldnames>> \o [k \in 1..Len(items) |-> writerow(items[k])]

\* The record of the export scenario.
ScenarioMetrics == CandidateMetrics(0, QInt(50), QInt(30), 4, Q(6, 100), FALSE)

\* Records handed to export_to_csv: what filter_candidates returns for the
\* polygons of the model, and the scenario's record.
ExportCalibrations == {Calibration(100, 10), Calibration(50, 10)}
ExportConfigs == {PipelineConfig, [PipelineConfig EXCEPT !.min_area_sqft = QInt(0)]}
MetricsInputs ==
    {filter_candidates(ps, c, cfg).val.metrics :
        ps \in {q \in Inputs : AllPolygons(q)},
        c \in ExportCalibrations, cfg \in ExportConfigs}
    \cup {<<ScenarioMetrics>>}

\* What output_path holds before the call: nothing, an empty file, or the
\* rows of an earlier export.
OldFiles ==
    {None, Some(<<>>), Some(export_to_csv(<<ScenarioMetrics, ScenarioMetrics>>, None))}

\* No pipeline call is under way.
PipelineIdle ==
    /\ calibration = None
    /\ config = PipelineConfig
    /\ input = <<>>
    /\ op = "none"
    /\ arg = 0
    /\ pc = "idle"
    /\ calls = <<>>
    /\ contours = <<>>
    /\ polygons = <<>>
    /\ out = Running

InitExport ==
    /\ PipelineIdle
    /\ metrics \in MetricsInputs
    /\ file \in OldFiles
    /\ AcceptedRegionsModel
    /\ MainWindow

call_export_to_csv ==
    /\ pc = "idle"
    /\ file' = Some(export_to_csv(metrics, file))
    /\ op' = "export_to_csv"
    /\ out' = Return(None)
    /\ pc' = "done"
    /\ UNCHANGED <<calibration, config, input, arg, calls, contours, polygons>>
    /\ UNCHANGED <<metrics, model_vars, window_vars>>

NextExport == call_export_to_csv

SpecExport == InitExport /\ [][NextExport]_vars

(***************************************************************************)
(* AcceptedRegionsModel (src/model.py)                                     *)
(***************************************************************************)
\* Most regions added to one model.
MaxAdds == 3

QAdd(a, b) == Q(a[1] * b[2] + b[1] * a[2], a[2] * b[2])

AcceptedRegion(page, region_id, area_sqft, perimeter_lf, polygon_points) ==
    [page |-> page,
     region_id |-> region_id,
     area_sqft |-> area_sqft,
     perimeter_lf |-> perimeter_lf,
     polygon_points |-> polygon_points]

\* Hands out the same id again: _next_id is not advanced.
add_region_same_id(rs, nid, page, area_sqft, perimeter_lf, polygon_points) ==
    LET region == AcceptedRegion(page, nid, area_sqft, perimeter_lf, polygon_points)
    IN  [regions |-> Append(rs, region), next_id |-> nid, region |-> region]
\* add_region on the list rs and counter nid: the new list, the new
\* counter and the region returned.
add_region(rs, nid, page, area_sqft, perimeter_lf, polygon_points) ==
    LET region == AcceptedRegion(page, nid, area_sqft, perimeter_lf, polygon_points)
    IN  [regions |-> Append(rs, region), next_id |-> nid + 1, region |-> region]

remove_region(rs, region_id) ==
    SelectSeq(rs, LAMBDA region : region.region_id # region_id)

regions_for_page(rs, page) ==
    SelectSeq(rs, LAMBDA region : region.page = page)

\* sum(...) over the list, from the left, starting at 0.
RECURSIVE SumArea(_, _)
SumArea(rs, i) ==
    IF i = 0 THEN QInt(0) ELSE QAdd(SumArea(rs, i - 1), rs[i].area_sqft)
RECURSIVE SumPerimeter(_, _)
SumPerimeter(rs, i) ==
    IF i = 0 THEN QInt(0)
    ELSE QAdd(SumPerimeter(rs, i - 1), rs[i].perimeter_lf)

totals(rs) == <<SumArea(rs, Len(rs)), SumPerimeter(rs, Len(rs))>>

\* What a caller adds: area, perimeter and outline of a measured region.
Measured ==
    {<<QInt(50), QInt(30), Rect>>, <<Q(6, 100), Q(12, 10), Tri>>}

InitModel ==
    /\ PipelineIdle
    /\ NoExport
    /\ AcceptedRegionsModel
    /\ MainWindow

OutsideModel == UNCHANGED <<pipeline_vars, export_vars, window_vars>>

call_add_region ==
    /\ next_id <= MaxAdds
    /\ \E page \in 1..PageCount, m \in Measured :
          LET r == add_region(regions, next_id, page, m[1], m[2], m[3])
          IN  /\ regions' = r.regions
              /\ next_id' = r.next_id
              /\ returned' = Append(returned, r.region.region_id)
              /\ last_call' = <<"add_region", r.region.region_id>>
    /\ OutsideModel

call_remove_region ==
    /\ \E region_id \in 1..MaxAdds :
          /\ regions' = remove_region(regions, region_id)
          /\ last_call' = <<"remove_region", region_id>>
    /\ UNCHANGED <<next_id, returned>>
    /\ OutsideModel

NextModel ==
    \/ call_add_region
    \/ call_remove_region

SpecModel == InitModel /\ [][NextModel]_vars

(***************************************************************************)
(* MainWindow (src/ui.py) with detect_regions (src/detect.py)              *)
(***************************************************************************)
\* cv2.contourArea and cv2.arcLength(contour, True) of a closed boundary.
contourArea(contour) == area(contour)
arcLength(contour) == length(contour)

CandidateRegion(contour, polygon, area_px, perimeter_px) ==
    [contour |-> contour,
     polygon |-> polygon,
     area_px |-> area_px,
     perimeter_px |-> perimeter_px]

\* detect_regions from the contours cv2.findContours returns: those below
\* the minimum area are skipped, the others become candidates in order.
RECURSIVE detect_loop(_, _, _)
detect_loop(found, min_area_px, i) ==
    IF i > Len(found) THEN <<>>
    ELSE LET area_px == contourArea(found[i])
             perimeter_px == arcLength(found[i])
         IN  IF QLess(area_px, min_area_px)
             THEN detect_loop(found, min_area_px, i + 1)
             ELSE <<CandidateRegion(found[i], found[i], area_px, perimeter_px)>>
                  \o detect_loop(found, min_area_px, i + 1)

detect_regions(found, min_area_sqft, ft_per_pixel) ==
    LET min_area_px == QDiv(min_area_sqft, QMul(ft_per_pixel, ft_per_pixel))
    IN  detect_loop(found, min_area_px, 1)

CandidateGraphicsItem(candidate) ==
    [candidate |-> candidate, accepted_region_id |-> None]

RECURSIVE candidate_items(_, _)
candidate_items(found, i) ==
    IF i > Len(found) THEN <<>>
    ELSE <<CandidateGraphicsItem(found[i])>> \o candidate_items(found, i + 1)

\* Most regions accepted in one session of the window.
MaxAccepts == 2

\* The closed boundaries on a page of the document.
PageContours(page) == IF page % 2 = 0 THEN <<Rect, Tri>> ELSE <<Ell, Rect>>
\* Scene positions the user clicks.
ClickPoints == {<<0, 0>>, <<100, 0>>}
\* Distances the calibration dialog returns (its minimum is 0.001).
DialogDistances == {QInt(10), QInt(100)}
\* Values of the minimum-area spin box (range 1 to 10000).
MinAreaValues == {QInt(1), QInt(20)}

InitWindow ==
    /\ PipelineIdle
    /\ NoExport
    /\ AcceptedRegionsModel
    /\ MainWindow

OutsideWindow == UNCHANGED <<pipeline_vars, export_vars>>

\* A handler that returns at once: nothing but the record of the event.
Ignored(name) ==
    /\ event' = name
    /\ UNCHANGED <<renderer, current_page, gray_image, window_calibration>>
    /\ UNCHANGED <<calibration_points, calibrating, candidates, overlays>>
    /\ UNCHANGED <<accepted_on, model_vars>>

\* refresh_page with a document open: the page is rendered, the scene is
\* cleared, the candidates dropped and the accepted overlays added.
refresh_page(page) ==
    /\ gray_image' = Some(page)
    /\ candidates' = <<>>
    /\ overlays' = {regions_for_page(regions, page)[k].region_id :
                       k \in 1..Len(regions_for_page(regions, page))}

load_pdf ==
    /\ \E page_count \in 1..PageCount : renderer' = Some(page_count)
    /\ current_page' = 0
    /\ calibration_points' = <<>>
    /\ refresh_page(0)
    /\ event' = "load_pdf"
    /\ UNCHANGED <<window_calibration, calibrating, accepted_on, model_vars>>
    /\ OutsideWindow

on_page_changed ==
    /\ renderer # None
    /\ \E index \in 0..(The(renderer) - 1) :
          /\ index # current_page
          /\ current_page' = index
          /\ refresh_page(index)
    /\ calibration_points' = <<>>
    /\ calibrating' = FALSE
    /\ event' = "on_page_changed"
    /\ UNCHANGED <<renderer, window_calibration, accepted_on, model_vars>>
    /\ OutsideWindow

start_calibration ==
    /\ IF renderer = None
       THEN Ignored("ignored")
       ELSE /\ calibration_points' = <<>>
            /\ calibrating' = TRUE
            /\ event' = "start_calibration"
            /\ UNCHANGED <<renderer, current_page, gray_image, candidates>>
            /\ UNCHANGED <<window_calibration, overlays, accepted_on, model_vars>>
    /\ OutsideWindow

\* finish_calibration with the two points clicked and the outcome of the
\* distance dialog.
finish_calibration(points, ok, dist) ==
    LET pixel_distance == EdgeLength(points[1], points[2])
    IN  /\ calibrating' = FALSE
        /\ IF ~ok
           THEN /\ calibration_points' = <<>>
                /\ event' = "calibration_cancelled"
                /\ UNCHANGED window_calibration
           ELSE IF pixel_distance <= 0
           THEN /\ calibration_points' = points
                /\ event' = "calibration_invalid"
                /\ UNCHANGED window_calibration
           ELSE /\ window_calibration' =
                      [window_calibration EXCEPT
                          ![current_page] = Some(QDiv(dist, QInt(pixel_distance)))]
                /\ calibration_points' = <<>>
                /\ event' = "calibrated"
        /\ UNCHANGED <<renderer, current_page, gray_image, candidates>>
        /\ UNCHANGED <<overlays, accepted_on, model_vars>>

\* toggle_candidate on the i-th candidate item.
toggle_candidate(i) ==
    LET item == candidates[i]
        stored == window_calibration[current_page]
        ft_per_pixel == The(stored)
        area_sqft == QMul(item.candidate.area_px, QMul(ft_per_pixel, ft_per_pixel))
        perimeter_lf == QMul(item.candidate.perimeter_px, ft_per_pixel)
        added == add_region(regions, next_id, current_page + 1, area_sqft,
                            perimeter_lf, item.candidate.polygon)
    IN  IF stored = None
        THEN Ignored("calibrate_first")
        ELSE /\ IF item.accepted_region_id = None
                THEN /\ next_id <= MaxAccepts
                     /\ regions' = added.regions
                     /\ next_id' = added.next_id
                     /\ returned' = Append(returned, added.region.region_id)
                     /\ last_call' = <<"add_region", added.region.region_id>>
                     /\ candidates' =
                           [candidates EXCEPT
                               ![i].accepted_region_id = Some(added.region.region_id)]
                     /\ accepted_on' = Append(accepted_on, current_page)
                     /\ event' = "accepted"
                ELSE /\ regions' = remove_region(regions, The(item.accepted_region_id))
                     /\ last_call' = <<"remove_region", The(item.accepted_region_id)>>
                     /\ candidates' = [candidates EXCEPT ![i].accepted_region_id = None]
                     /\ event' = "unaccepted"
                     /\ UNCHANGED <<next_id, returned, accepted_on>>
             /\ UNCHANGED <<renderer, current_page, gray_image, window_calibration>>
             /\ UNCHANGED <<calibration_points, calibrating, overlays>>

\* A click in the view at scene_pos, where the item under the cursor is
\* the at-th candidate item, or none of them when at = 0; ok and dist are
\* what the distance dialog returns if the click opens it.
handle_scene_click ==
    /\ \E scene_pos \in ClickPoints, at \in 0..Len(candidates) :
       \E ok \in BOOLEAN, dist \in DialogDistances :
          IF renderer = None
          THEN Ignored("ignored")
          ELSE IF calibrating /\ Len(calibration_points) < 2
          THEN IF Len(calibration_points) + 1 = 2
               THEN finish_calibration(Append(calibration_points, scene_pos), ok, dist)
               ELSE /\ calibration_points' = Append(calibration_points, scene_pos)
                    /\ event' = "first_point"
                    /\ UNCHANGED <<renderer, current_page, gray_image, candidates>>
                    /\ UNCHANGED <<window_calibration, calibrating, overlays>>
                    /\ UNCHANGED <<accepted_on, model_vars>>
          ELSE IF at = 0
          THEN Ignored("no_candidate")
          ELSE toggle_candidate(at)
    /\ OutsideWindow

run_detection ==
    /\ \E min_area_sqft \in MinAreaValues :
          IF renderer = None \/ gray_image = None
          THEN Ignored("ignored")
          ELSE IF window_calibration[current_page] = None
          THEN Ignored("calibrate_first")
          ELSE /\ candidates' =
                     candidate_items(
                         detect_regions(PageContours(The(gray_image)), min_area_sqft,
                                        The(window_calibration[current_page])), 1)
               /\ event' = "detected"
               /\ UNCHANGED <<renderer, current_page, gray_image, window_calibration>>
               /\ UNCHANGED <<calibration_points, calibrating, overlays>>
               /\ UNCHANGED <<accepted_on, model_vars>>
    /\ OutsideWindow

NextWindow ==
    \/ load_pdf
    \/ on_page_changed
    \/ start_calibration
    \/ handle_scene_click
    \/ run_detection

SpecWindow == InitWindow /\ [][NextWindow]_vars

(***************************************************************************)
(* Properties                                                              *)
(***************************************************************************)
\* filter_candidates has been called, directly or as the last stage of
\* run_pipeline, and the call is over.
FilterCalled ==
    /\ pc = "done"
    /\ \/ op = "filter_candidates"
       \/ op = "run_pipeline" /\ calls # <<>>
          /\ calls[Len(calls)] = "filter_candidates"
\* ... and it returned a PipelineResult.
Filtered == FilterCalled /\ ~Raised(out)
\* The polygons filter_candidates was given.
given == IF op = "run_pipeline" THEN polygons ELSE input
ValidCalibration ==
    /\ calibration # None
    /\ The(calibration).pixel_distance > 0
    /\ The(calibration).real_distance_feet > 0
InvalidCalibrationHeld == calibration # None /\ ~ValidCalibration

\* Positions (1-based) of the metrics whose contour_index is position i
\* of the input (0-based: i - 1).
MetricsOf(i) ==
    {k \in 1..Len(out.val.metrics) : out.val.metrics[k].contour_index = i - 1}
Accepted(i) ==
    \E k \in MetricsOf(i) :
        k <= Len(out.val.polygons) /\ out.val.polygons[k] = given[i]

\* C1: the polygons and metrics of the result have equal length,
\* polygons[i] is the input polygon at metrics[i].contour_index, and
\* contour_index is strictly increasing along the metrics.
C1_AlignedInInputOrder ==
    Filtered =>
      LET r == out.val
      IN  /\ Len(r.polygons) = Len(r.metrics)
          /\ \A i \in 1..Len(r.metrics) :
                /\ r.metrics[i].contour_index \in 0..(Len(given) - 1)
                /\ r.polygons[i] = given[r.metrics[i].contour_index + 1]
          /\ \A i, j \in 1..Len(r.metrics) :
                i < j => r.metrics[i].contour_index
                           < r.metrics[j].contour_index

\* A result whose only candidate is the second input polygon, the first
\* having been left out.
C1_Witness ==
    /\ Filtered
    /\ Len(given) = 2
    /\ Len(out.val.metrics) = 1
    /\ out.val.metrics[1].contour_index = 1
    /\ out.val.polygons = <<given[2]>>

\* Calibrated area of a polygon under the calibration held.
AreaSqft(polygon) == compute_geometry(polygon, The(calibration)).val[1]
\* Number of coordinates the code counts for a polygon.
CountedVertices(polygon) == Len(exterior_coords(polygon))

\* C2: with a valid calibration a non-empty polygon is accepted exactly
\* when its area is at least min_area_sqft and its vertex count at most
\* max_vertex_count.
C2_AcceptedIffBothFiltersPass ==
    (Filtered /\ ValidCalibration) =>
      \A i \in 1..Len(given) :
        ~is_empty(given[i]) =>
          (Accepted(i) <=>
             /\ QLeq(config.min_area_sqft, AreaSqft(given[i]))
             /\ CountedVertices(given[i]) <= config.max_vertex_count)

\* One polygon left out for its vertex count alone and another for its
\* area alone.
C2_Witness ==
    /\ Filtered /\ ValidCalibration
    /\ \E i, j \in 1..Len(given) :
          /\ ~is_empty(given[i]) /\ ~is_empty(given[j])
          /\ ~Accepted(i) /\ ~Accepted(j)
          /\ QLeq(config.min_area_sqft, AreaSqft(given[i]))
          /\ CountedVertices(given[i]) > config.max_vertex_count
          /\ QLess(AreaSqft(given[j]), config.min_area_sqft)
          /\ CountedVertices(given[j]) <= config.max_vertex_count

\* A metrics record without its flag.
Unflagged(m) ==
    <<m.contour_index, m.area_sqft, m.perimeter_lf, m.vertex_count,
      m.sanity_score>>
SameButFlags(ms1, ms2) ==
    /\ Len(ms1) = Len(ms2)
    /\ \A k \in 1..Len(ms1) : Unflagged(ms1[k]) = Unflagged(ms2[k])

\* C3: flagged is true exactly when sanity_score exceeds the threshold,
\* and a run that differs only in sanity_ratio_threshold accepts the same
\* polygons with the same metrics, flags aside.
C3_FlagAdvisoryOnly ==
    Filtered =>
      /\ \A k \in 1..Len(out.val.metrics) :
            out.val.metrics[k].flagged
              <=> FloatGreater(out.val.metrics[k].sanity_score,
                               config.sanity_ratio_threshold)
      /\ \A t \in Thresholds :
            LET other == filter_candidates(given, The(calibration),
                           [config EXCEPT !.sanity_ratio_threshold = t])
            IN  /\ ~Raised(other)
                /\ other.val.polygons = out.val.polygons
                /\ SameButFlags(other.val.metrics, out.val.metrics)

\* A flagged candidate that another threshold of the model would not flag.
C3_Witness ==
    /\ Filtered
    /\ \E k \in 1..Len(out.val.metrics), t \in Thresholds :
          /\ out.val.metrics[k].flagged
          /\ ~FloatGreater(out.val.metrics[k].sanity_score, t)

\* C4: the recorded vertex_count is the length of the polygon's vertex
\* sequence (a rectangle of 4 vertices has 4), and a polygon with exactly
\* max_vertex_count vertices passes the vertex filter.
C4_VertexCountIsSequenceLength ==
    (Filtered /\ ValidCalibration) =>
      /\ \A k \in 1..Len(out.val.metrics) :
            out.val.metrics[k].vertex_count = Len(out.val.polygons[k])
      /\ \A i \in 1..Len(given) :
            (/\ Len(given[i]) = config.max_vertex_count
             /\ QLeq(config.min_area_sqft, AreaSqft(given[i])))
              => Accepted(i)

\* C5: no Calibration with a non-positive pixel_distance or
\* real_distance_feet exists, construction of one fails.
C5_NoInvalidCalibrationExists ==
    calibration # None =>
      /\ The(calibration).pixel_distance > 0
      /\ The(calibration).real_distance_feet > 0

\* C6: filter_candidates and run_pipeline called with a calibration that
\* has a non-positive distance always end in InvalidCalibration and never
\* return a PipelineResult.
C6_InvalidCalibrationAlwaysRaises ==
    (/\ InvalidCalibrationHeld
     /\ op \in {"filter_candidates", "run_pipeline"}
     /\ pc = "done")
      => out.exc \in InvalidCalibration

\* A non-empty polygon whose points are collinear.
ZeroArea(polygon) ==
    ~is_empty(polygon) /\ Shoelace2(exterior_coords(polygon), 1) = 0

\* C7: a non-empty polygon of zero pixel area raises nowhere:
\* sanity_score returns +infinity, compute_geometry returns area 0, and
\* filter_candidates accepts it with score +infinity and flagged when
\* min_area_sqft is 0 and its vertex count passes, and leaves it out when
\* min_area_sqft is positive.
C7_ZeroAreaIsNotAnError ==
    /\ (op = "sanity_score" /\ pc = "done" /\ ZeroArea(input[arg]))
          => out = Return(Inf)
    /\ (/\ op = "compute_geometry" /\ pc = "done" /\ ValidCalibration
        /\ ZeroArea(input[arg]))
          => (~Raised(out) /\ out.val[1] = QInt(0))
    /\ (/\ FilterCalled /\ ValidCalibration
        /\ \E i \in 1..Len(given) : ZeroArea(given[i]))
          => /\ ~Raised(out)
             /\ \A i \in 1..Len(given) :
                  ZeroArea(given[i]) =>
                    IF QLess(QInt(0), config.min_area_sqft)
                    THEN ~Accepted(i)
                    ELSE (/\ config.min_area_sqft = QInt(0)
                          /\ CountedVertices(given[i])
                               <= config.max_vertex_count)
                           => /\ Accepted(i)
                              /\ \A k \in MetricsOf(i) :
                                   /\ out.val.metrics[k].sanity_score = Inf
                                   /\ out.val.metrics[k].flagged

\* A zero-area polygon accepted with an infinite score and flagged.
C7_Witness ==
    /\ Filtered /\ ValidCalibration
    /\ \E i \in 1..Len(given) :
          /\ ZeroArea(given[i])
          /\ Accepted(i)
          /\ \E k \in MetricsOf(i) :
                /\ out.val.metrics[k].sanity_score = Inf
                /\ out.val.metrics[k].flagged
                /\ out.val.metrics[k].area_sqft = QInt(0)

\* Pixel areas and perimeters of the polygons of the model, worked out by
\* hand (shoelace area, perimeter with the closing edge).
HandArea(polygon) ==
    CASE polygon = Rect -> QInt(5000)
      [] polygon = Tri -> QInt(6)
      [] polygon = Ell -> QInt(12)
      [] polygon = Flat -> QInt(0)
      [] polygon = Empty -> QInt(0)
HandPerimeter(polygon) ==
    CASE polygon = Rect -> QInt(300)
      [] polygon = Tri -> QInt(12)
      [] polygon = Ell -> QInt(16)
      [] polygon = Flat -> QInt(8)
      [] polygon = Empty -> QInt(0)
HandScore(polygon) ==
    IF HandArea(polygon) = QInt(0) THEN Inf
    ELSE QDiv(HandPerimeter(polygon), HandArea(polygon))
\* Factors by which a calibration is scaled.
Scales == {2, 3}

C9_EvenBlockSizeStopsAtBinarizer ==
    (/\ op = "run_pipeline"
     /\ config.adaptive_block_size % 2 = 0
     /\ pc # "binarize")
      => /\ pc = "done"
         /\ out.exc \in InvalidConfig
         /\ calls = <<"render">>

\* run_pipeline has ended in InvalidConfig for an even block size.
C9_Witness ==
    /\ op = "run_pipeline" /\ pc = "done"
    /\ config.adaptive_block_size % 2 = 0
    /\ out.exc \in InvalidConfig

\* C10: a configuration with a non-positive kernel size is rejected with
\* InvalidConfig, in run_pipeline before binarization runs.
C10_BadKernelRejectedBeforeBinarization ==
    (/\ op = "run_pipeline"
     /\ \/ config.line_weight_threshold_px <= 0
        \/ (config.close_kernel_px # None
            /\ The(config.close_kernel_px) <= 0)
     /\ pc # "binarize")
      => /\ pc = "done"
         /\ out.exc \in InvalidConfig
         /\ calls = <<"render">>

\* A contour that is not an array of shape (N, 1, 2).
WrongShape(c) == c.ndim # 3 \/ c.shape1 # 1
\* A contour no polygon can be built from: wrong shape, or one or two points.
Unbuildable(c) == WrongShape(c) \/ Len(c.points) \in 1..2

Exported == op = "export_to_csv" /\ pc = "done"

\* C12: after export_to_csv the file holds the header row and then one
\* row per record, in the order of the records, whatever it held before;
\* the call changes neither the records nor any other pipeline entity.
C12_ExportWritesHeaderAndRows ==
    /\ [](Exported =>
            /\ file # None
            /\ Len(The(file)) = 1 + Len(metrics)
            /\ The(file)[1] = fieldnames
            /\ \A k \in 1..Len(metrics) :
                  /\ Len(The(file)[k + 1]) = Len(fieldnames)
                  /\ The(file)[k + 1][1] = IntText(metrics[k].contour_index)
                  /\ The(file)[k + 1][4] = IntText(metrics[k].vertex_count)
                  /\ The(file)[k + 1][6] = BoolText(metrics[k].flagged))
    /\ [][op' = "export_to_csv" =>
            UNCHANGED <<metrics, calibration, config, input, polygons,
                        contours, model_vars, window_vars>>]_vars

\* Two records exported: three rows, the records in their order.
C12_Witness ==
    /\ Exported
    /\ Len(metrics) = 2
    /\ metrics[1].contour_index < metrics[2].contour_index
    /\ Len(The(file)) = 3
    /\ The(file)[2][1] = <<"0">>
    /\ The(file)[3][1] = <<"1">>

\* C13: exporting the scenario's record writes the data row
\* 0,50.00,30.00,4,0.06,False: the floats rounded to two decimals.
C13_RowRoundedToTwoDecimals ==
    (Exported /\ metrics = <<ScenarioMetrics>>) =>
        The(file)[2] = << <<"0">>,
                          <<"5", "0", ".", "0", "0">>,
                          <<"3", "0", ".", "0", "0">>,
                          <<"4">>,
                          <<"0", ".", "0", "6">>,
                          <<"F", "a", "l", "s", "e">> >>

\* The area and perimeter of the stored region with the given id, 0 when
\* no stored region has it.
StoredWith(region_id) ==
    {k \in 1..Len(regions) : regions[k].region_id = region_id}
AreaOfId(region_id) ==
    IF StoredWith(region_id) = {} THEN QInt(0)
    ELSE regions[CHOOSE k \in StoredWith(region_id) : TRUE].area_sqft
PerimeterOfId(region_id) ==
    IF StoredWith(region_id) = {} THEN QInt(0)
    ELSE regions[CHOOSE k \in StoredWith(region_id) : TRUE].perimeter_lf
RECURSIVE AreaUpToId(_)
AreaUpToId(region_id) ==
    IF region_id = 0 THEN QInt(0)
    ELSE QAdd(AreaOfId(region_id), AreaUpToId(region_id - 1))
RECURSIVE PerimeterUpToId(_)
PerimeterUpToId(region_id) ==
    IF region_id = 0 THEN QInt(0)
    ELSE QAdd(PerimeterOfId(region_id), PerimeterUpToId(region_id - 1))

\* C14: the region_ids of the stored regions are strictly increasing in
\* list order (hence distinct), each id add_region returns is larger than
\* all it returned before, totals() is the sum over the stored regions,
\* and remove_region of an id that is not stored leaves the list as it is.
C14_RegionIdsIncreaseAndTotalsMatch ==
    /\ [](/\ \A i, j \in 1..Len(regions) :
                i < j => regions[i].region_id < regions[j].region_id
          /\ \A i, j \in 1..Len(returned) :
                i < j => returned[i] < returned[j]
          /\ \A i \in 1..Len(regions) :
                \E j \in 1..Len(returned) : returned[j] = regions[i].region_id
          /\ totals(regions) = <<AreaUpToId(next_id), PerimeterUpToId(next_id)>>)
    /\ [][(/\ last_call'[1] = "remove_region"
           /\ StoredWith(last_call'[2]) = {})
            => regions' = regions]_vars

\* A region added after an earlier one was removed: its id is new, and
\* the totals count the stored regions only.
C14_Witness ==
    /\ last_call[1] = "add_region"
    /\ Len(returned) = 3
    /\ Len(regions) = 2
    /\ regions[2].region_id = 3
    /\ totals(regions) = <<QAdd(regions[1].area_sqft, regions[2].area_sqft),
                           QAdd(regions[1].perimeter_lf, regions[2].perimeter_lf)>>

\* The region_ids regions_for_page returns for a page index.
LookedUpFor(page) ==
    {regions_for_page(regions, page)[k].region_id :
        k \in 1..Len(regions_for_page(regions, page))}
\* The stored regions that were accepted while the page was shown.
AcceptedWhileOn(page) ==
    {regions[k].region_id : k \in {k \in 1..Len(regions) : accepted_on[regions[k].region_id] = page}}
\* The handlers that show a page.
PageShown == event \in {"load_pdf", "on_page_changed"}

\* C15: a region accepted on page index p is returned by the lookup for
\* page index p and for no other page, so the overlays drawn when a page
\* is shown are the regions accepted while that page was the current one.
C15_OverlaysAreThePagesOwnRegions ==
    /\ \A page \in Pages : LookedUpFor(page) = AcceptedWhileOn(page)
    /\ PageShown => overlays = AcceptedWhileOn(current_page)

\* The stored regions that came from the contour of the i-th candidate
\* item: accepted on the page now shown, with its outline.
RegionsOf(i) ==
    {k \in 1..Len(regions) :
        /\ accepted_on[regions[k].region_id] = current_page
        /\ regions[k].polygon_points = candidates[i].candidate.polygon}

\* C16: a candidate item has accepted_region_id set exactly when the model
\* holds the region it added, and no contour of a page is held twice: the
\* region of a contour on display can be un-accepted by a click on its
\* candidate and cannot be accepted again.
C16_ContourAcceptedAtMostOnce ==
    /\ \A i \in 1..Len(candidates) :
          /\ candidates[i].accepted_region_id # None
                => \E k \in RegionsOf(i) :
                      regions[k].region_id = The(candidates[i].accepted_region_id)
          /\ RegionsOf(i) # {} => candidates[i].accepted_region_id # None
    /\ \A j, k \in 1..Len(regions) :
          (/\ accepted_on[regions[j].region_id] = accepted_on[regions[k].region_id]
           /\ regions[j].polygon_points = regions[k].polygon_points)
             => j = k

\* The handlers that compute areas from the factor of the current page.
ComputesAreas == event \in {"detected", "accepted", "unaccepted"}

\* C17: every stored feet-per-pixel factor is positive; areas are computed
\* only when the current page has a factor; the pending click list holds at
\* most two points and is non-empty only while calibrating; a cancelled
\* dialog or two identical points leave the factors as they were, and a
\* completed calibration changes the factor of the current page only.
C17_CalibrationFlowInvariants ==
    /\ [](/\ \A page \in Pages :
                window_calibration[page] # None
                   => QLess(QInt(0), The(window_calibration[page]))
          /\ ComputesAreas => window_calibration[current_page] # None
          /\ Len(calibration_points) <= 2
          /\ calibration_points # <<>> => calibrating)
    /\ [][/\ event' \in {"calibration_cancelled", "calibration_invalid"}
             => window_calibration' = window_calibration
          /\ \A page \in Pages :
                window_calibration'[page] # window_calibration[page]
                   => event' = "calibrated" /\ page = current_page]_vars

====
